---------------------------- MODULE Spec2Model ----------------------------
(***************************************************************************)
(* A model of src/main.rs: one CLI with the subcommands nixos configure,   *)
(* nixos update, screenshot and scrollback.  Each subcommand is a linear   *)
(* sequence of external commands run through run_command /                 *)
(* run_command_with_stdio, with `?` propagating the first failure.         *)
(*                                                                         *)
(* Text is a sequence of Unicode code points, bytes are a sequence of      *)
(* numbers 0..255.  Argument lists whose arguments are processed character *)
(* by character (grim's) are sequences of texts; the others are sequences  *)
(* of TLA+ strings.                                                        *)
(*                                                                         *)
(* Specifications:                                                         *)
(*   Spec      the subcommands, one action per step of main.rs             *)
(*   PipeSpec  run_command_with_stdio at the level of the two pipes        *)
(*             between parent and child                                    *)
(***************************************************************************)
EXTENDS Integers, Sequences, FiniteSets, TLC

VARIABLES
    pc,        \* position in main / the running subcommand; "ok" and "err"
               \* are main having returned Ok(()) and an error
    cli,       \* the parsed command line (Cli::parse().script)
    trace,     \* the external commands invoked so far, in order
    dir,       \* whether <pictures>/screenshots exists (create_dir_all)
    rect,      \* screenshot Window: the focused container's rectangle
    region,    \* screenshot: the geometry handed to the grim closure
    bytes,     \* screenshot: grim's stdout
    file,      \* screenshot: the content of the file at `path`
    input,     \* scrollback: what was read from stdin
    str,       \* scrollback: the text after replace_all
    ppc,       \* PipeSpec: position of the parent in run_command_with_stdio
    call,      \* PipeSpec: the call's arguments and the child's program
    toWrite,   \* PipeSpec: bytes of stdin data write_all still has to write
    stdinOpen, \* PipeSpec: the parent still holds the write end of stdin
    inPipe,    \* PipeSpec: bytes buffered in the child's stdin pipe
    outPipe,   \* PipeSpec: bytes buffered in the child's stdout pipe
    collected, \* PipeSpec: bytes of stdout read by wait_with_output
    cpc,       \* PipeSpec: position of the child
    childOut,  \* PipeSpec: bytes the child still has to write
    childEof,  \* PipeSpec: the child has read its stdin to the end
    status,    \* PipeSpec: the child's exit status
    ret        \* PipeSpec: what run_command_with_stdio returned

mvars == <<pc, cli, trace, dir, rect, region, bytes, file, input, str>>
pvars == <<ppc, call, toWrite, stdinOpen, inPipe, outPipe, collected, cpc,
           childOut, childEof, status, ret>>
vars == <<mvars, pvars>>

(***************************************************************************)
(* Bounds of the model.                                                    *)
(***************************************************************************)
MaxLen == 4        \* longest scrollback input, in characters
MaxData == 3       \* PipeSpec: longest stdin data, in bytes
MaxOut == 3        \* PipeSpec: longest child output, in bytes
PipeCap == 1       \* PipeSpec: capacity of a pipe buffer, in bytes

(***************************************************************************)
(* Characters.                                                             *)
(***************************************************************************)
BEL == 7
CR == 13
ESC == 27
SP == 32
Minus == 45
Comma == 44
LowerX == 120

\* "-" and "-g" as texts (main.rs:172-173)
Dash == <<Minus>>
DashG == <<Minus, 103>>

\* The characters scrollback inputs are drawn from: BEL, CR, ESC, space,
\* "0" (a CSI parameter), "[", "\", "]", "m".
Alphabet == {BEL, CR, ESC, SP, 48, 91, 92, 93, 109}

RECURSIVE SeqsUpTo(_, _)
SeqsUpTo(S, n) ==
    IF n = 0 THEN {<<>>}
    ELSE LET shorter == SeqsUpTo(S, n - 1)
         IN  shorter \cup {Append(s, c) : s \in {t \in shorter : Len(t) = n - 1}, c \in S}

Texts == SeqsUpTo(Alphabet, MaxLen)

(***************************************************************************)
(* str::trim: removes leading and trailing White_Space characters.         *)
(***************************************************************************)
IsWhitespace(c) ==
    \/ c \in 9..13
    \/ c \in {32, 133, 160, 5760, 8232, 8233, 8239, 8287, 12288}
    \/ c \in 8192..8202

RECURSIVE TrimStart(_)
TrimStart(s) ==
    IF s # <<>> /\ IsWhitespace(Head(s)) THEN TrimStart(Tail(s)) ELSE s

RECURSIVE TrimEnd(_)
TrimEnd(s) ==
    IF s # <<>> /\ IsWhitespace(s[Len(s)])
    THEN TrimEnd(SubSeq(s, 1, Len(s) - 1))
    ELSE s

Trim(s) == TrimEnd(TrimStart(s))

(***************************************************************************)
(* UTF-8.  The model draws bytes from ASCII, the two-byte forms and 0xFF,  *)
(* so the decoder knows the one- and two-byte forms and rejects the rest.  *)
(***************************************************************************)
RECURSIVE Utf8Valid(_)
Utf8Valid(bs) ==
    IF bs = <<>> THEN TRUE
    ELSE IF bs[1] < 128 THEN Utf8Valid(Tail(bs))
    ELSE IF bs[1] \in 194..223 /\ Len(bs) >= 2 /\ bs[2] \in 128..191
         THEN Utf8Valid(SubSeq(bs, 3, Len(bs)))
    ELSE FALSE

RECURSIVE Utf8Decode(_)
Utf8Decode(bs) ==
    IF bs = <<>> THEN <<>>
    ELSE IF bs[1] < 128 THEN <<bs[1]>> \o Utf8Decode(Tail(bs))
    ELSE <<(bs[1] - 192) * 64 + (bs[2] - 128)>> \o Utf8Decode(SubSeq(bs, 3, Len(bs)))

RECURSIVE Utf8Encode(_)
Utf8Encode(s) ==
    IF s = <<>> THEN <<>>
    ELSE IF s[1] < 128 THEN <<s[1]>> \o Utf8Encode(Tail(s))
    ELSE <<192 + (s[1] \div 64), 128 + (s[1] % 64)>> \o Utf8Encode(Tail(s))

(***************************************************************************)
(* The regular expression of scrollback (main.rs:225-231).  A matcher      *)
(* returns the length of the match that starts at position i of s, or 0:   *)
(* every pattern matches at least one character.                           *)
(*                                                                         *)
(* The repetitions are greedy.  In each pattern the class that is repeated *)
(* is disjoint from what has to follow it, so giving characters back never *)
(* turns a failed match into a match, nor changes a match's length.        *)
(***************************************************************************)
At(s, i) == IF i \in 1..Len(s) THEN s[i] ELSE -1

\* the number of characters from position i on that are in class C
RECURSIVE Run(_, _, _)
Run(s, i, C) == IF At(s, i) \in C THEN 1 + Run(s, i + 1, C) ELSE 0

\* \x1b\[[\x30-\x3F]*[\x20-\x2F]*[\x40-\x7E]
CONTROL_SEQUENCES(s, i) ==
    IF At(s, i) = ESC /\ At(s, i + 1) = 91
    THEN LET params == Run(s, i + 2, 48..63)
             inter  == Run(s, i + 2 + params, 32..47)
             final  == i + 2 + params + inter
         IN  IF At(s, final) \in 64..126 THEN final - i + 1 ELSE 0
    ELSE 0

\* \x1b[\x60-\x7E]
INDEPENDENT_CONTROL_FUNCTIONS(s, i) ==
    IF At(s, i) = ESC /\ At(s, i + 1) \in 96..126 THEN 2 ELSE 0

\* \x1b[\x5F\x50\x5D\x5E][\x08-\x0D\x20-\x7E]*(\x1b\\|\x07)
COMMAND_STRINGS(s, i) ==
    IF At(s, i) = ESC /\ At(s, i + 1) \in {95, 80, 93, 94}
    THEN LET body == Run(s, i + 2, (8..13) \cup (32..126))
             term == i + 2 + body
         IN  IF At(s, term) = ESC /\ At(s, term + 1) = 92 THEN term - i + 2
             ELSE IF At(s, term) = BEL THEN term - i + 1
             ELSE 0
    ELSE 0

\* the fourth pattern left out of the expression
CARRIAGE_RETURN_Missing(s, i) == 0

\* \r
CARRIAGE_RETURN(s, i) == IF At(s, i) = CR THEN 1 ELSE 0

\* (A|B|C|D): the first alternative that matches at i
MatchLen(s, i) ==
    IF CONTROL_SEQUENCES(s, i) > 0 THEN CONTROL_SEQUENCES(s, i)
    ELSE IF INDEPENDENT_CONTROL_FUNCTIONS(s, i) > 0 THEN INDEPENDENT_CONTROL_FUNCTIONS(s, i)
    ELSE IF COMMAND_STRINGS(s, i) > 0 THEN COMMAND_STRINGS(s, i)
    ELSE CARRIAGE_RETURN(s, i)

\* Regex::replace_all(s, ""): the leftmost matches, not overlapping, in one
\* pass from position i on; what is between them is kept.
RECURSIVE ReplaceAllFrom(_, _)
ReplaceAllFrom(s, i) ==
    IF i > Len(s) THEN <<>>
    ELSE IF MatchLen(s, i) > 0 THEN ReplaceAllFrom(s, i + MatchLen(s, i))
    ELSE <<s[i]>> \o ReplaceAllFrom(s, i + 1)

ReplaceAll(s) == ReplaceAllFrom(s, 1)

\* main.rs:233: the text handed to the editor
Sanitize(text) == ReplaceAll(Trim(text))

(***************************************************************************)
(* format!("{},{} {}x{}", rect.x, rect.y, rect.width, rect.height) with    *)
(* i32 fields (main.rs:187).                                               *)
(***************************************************************************)
RECURSIVE Digits(_)
Digits(n) == IF n < 10 THEN <<48 + n>> ELSE Digits(n \div 10) \o <<48 + (n % 10)>>

ToDecimal(n) == IF n < 0 THEN <<Minus>> \o Digits(0 - n) ELSE Digits(n)

FormatRect(r) ==
    ToDecimal(r.x) \o <<Comma>> \o ToDecimal(r.y) \o <<SP>>
        \o ToDecimal(r.width) \o <<LowerX>> \o ToDecimal(r.height)

(***************************************************************************)
(* What the program is run with: the command lines, and what the world     *)
(* outside answers.                                                        *)
(***************************************************************************)
Editors == {"hx"}
Flakes == {"/etc/nixos"}
Devices == {"laptop", "server"}
Colors == {"#ffffff"}

Scripts ==
    [script : {"nixos_configure"}, editor_name : Editors, update : BOOLEAN,
     flake : Flakes, device : Devices]
    \cup [script : {"nixos_update"}, flake : Flakes, device : Devices]
    \cup [script : {"scrollback"}, editor_name : Editors]
    \cup [script : {"screenshot"}, area : {"Fullscreen", "Window"}]
    \cup [script : {"screenshot"}, area : {"Region"}, slurp_fg : Colors, slurp_bg : Colors]

\* rectangles of the focused container (swayipc Rect, i32 fields)
Rects == [x : {-10, 0, 7}, y : {0, 1080}, width : {1, 640}, height : {480}]

\* what slurp may print: "1,2 3x4\n", " 7,0 640x480", "1,2 3x4" followed by
\* U+00A0 in UTF-8, nothing, and a byte that is not UTF-8
SlurpOutputs ==
    { <<49, 44, 50, 32, 51, 120, 52, 10>>,
      <<32, 55, 44, 48, 32, 54, 52, 48, 120, 52, 56, 48>>,
      <<49, 44, 50, 32, 51, 120, 52, 194, 160>>,
      <<>>,
      <<255>> }

\* what grim may print: nothing, or the first bytes of a PNG
GrimOutputs == { <<>>, <<137, 80, 78, 71>> }

\* the path of the screenshot file (main.rs:162-167)
Path == "~/Pictures/screenshots/screenshot-2026-01-01-00:00:00.png"

None == [some |-> FALSE, data |-> <<>>]
Some(v) == [some |-> TRUE, data |-> v]

NoFile == [exists |-> FALSE, data |-> <<>>]

(***************************************************************************)
(* run_command_with_stdio (main.rs:98-133), seen from its caller: the      *)
(* results a call may have.  `outputs` is what the child may print.        *)
(***************************************************************************)
RunCommandWithStdio(pipe_stdout, stdin, outputs) ==
    {[outcome |-> "spawn_error", stdout |-> <<>>]}                \* :113
    \cup (IF stdin.some
          THEN {[outcome |-> "write_error", stdout |-> <<>>]}     \* :115
          ELSE {})
    \cup {[outcome |-> "wait_error", stdout |-> <<>>]}            \* :118
    \cup {[outcome |-> "exit_nonzero", stdout |-> <<>>]}          \* :119-130
    \cup {[outcome |-> "success", stdout |-> o] :                 \* :132
             o \in IF pipe_stdout THEN outputs ELSE {<<>>}}

\* run_command (main.rs:94-96)
RunCommand == RunCommandWithStdio(FALSE, None, {<<>>})

Success(r) == r.outcome = "success"

Invocation(command, args, pipe_stdout, stdin, r) ==
    [command |-> command, args |-> args, pipe_stdout |-> pipe_stdout,
     stdin |-> stdin, outcome |-> r.outcome, stdout |-> r.stdout]

\* a `?` that is missing: the error is dropped
Question_Dropped(ok, next) == next

\* The `?` operator: go on with `next`, or return the error.
Question(ok, next) == IF ok THEN next ELSE "err"

(***************************************************************************)
(* main (main.rs:69-92)                                                    *)
(***************************************************************************)
Entry(script) ==
    CASE script.script = "nixos_configure" -> "cfg_chdir"
      [] script.script = "nixos_update"    -> "upd_chdir"
      [] script.script = "scrollback"      -> "sb_read"
      [] script.script = "screenshot"      -> "shot_prepare"

Main ==
    /\ pc = "main"
    /\ \E script \in Scripts :
          /\ cli' = script
          /\ pc' = Entry(script)
    /\ UNCHANGED <<trace, dir, rect, region, bytes, file, input, str, pvars>>

\* a step that runs one command with run_command and does nothing else
RunStep(command, args, next) ==
    /\ \E r \in RunCommand :
          /\ trace' = Append(trace, Invocation(command, args, FALSE, None, r))
          /\ pc' = Question(Success(r), next)
    /\ UNCHANGED <<cli, dir, rect, region, bytes, file, input, str, pvars>>

\* env::set_current_dir(&flake)?
SetCurrentDir(next) ==
    /\ \E ok \in BOOLEAN : pc' = Question(ok, next)
    /\ UNCHANGED <<cli, trace, dir, rect, region, bytes, file, input, str, pvars>>

(***************************************************************************)
(* nixos_configure (main.rs:135-151)                                       *)
(***************************************************************************)
ConfigureNhArgs(device, update) ==
    <<"os", "switch", "-H", device, ".">> \o (IF update THEN <<"update">> ELSE <<>>)

CfgSetCurrentDir == pc = "cfg_chdir" /\ SetCurrentDir("cfg_editor")

CfgEditor == pc = "cfg_editor" /\ RunStep(cli.editor_name, <<>>, "cfg_git_add")

CfgGitAdd == pc = "cfg_git_add" /\ RunStep("git", <<"add", ".">>, "cfg_nh")

CfgNh ==
    pc = "cfg_nh" /\ RunStep("nh", ConfigureNhArgs(cli.device, cli.update), "cfg_commit")

\* git push in the place of git commit
CfgGitCommit_Push == pc = "cfg_commit" /\ RunStep("git", <<"push">>, "cfg_push")

CfgGitCommit == pc = "cfg_commit" /\ RunStep("git", <<"commit", "-a">>, "cfg_push")

CfgGitPush == pc = "cfg_push" /\ RunStep("git", <<"push">>, "ok")

(***************************************************************************)
(* nixos_update (main.rs:153-159)                                          *)
(***************************************************************************)
\* the update flag forgotten
UpdateNhArgs_NoFlag(device) == <<"os", "switch", "-H", device, ".">>

UpdateNhArgs(device) == <<"os", "switch", "-H", device, ".", "--update">>

UpdSetCurrentDir == pc = "upd_chdir" /\ SetCurrentDir("upd_git_add")

UpdGitAdd == pc = "upd_git_add" /\ RunStep("git", <<"add", ".">>, "upd_nh")

UpdNh == pc = "upd_nh" /\ RunStep("nh", UpdateNhArgs(cli.device), "ok")

(***************************************************************************)
(* screenshot (main.rs:161-219)                                            *)
(***************************************************************************)
\* the "-" that sends the image to stdout forgotten
GrimArgs_NoStdout(r) == IF r.some THEN <<DashG, r.data>> ELSE <<>>

\* the grim closure's argument list (main.rs:171-173)
GrimArgs(r) == (IF r.some THEN <<DashG, r.data>> ELSE <<>>) \o <<Dash>>

NotifyArgs(path) ==
    <<"Screenshot", "File saved as " \o path \o " and copied to clipboard",
      "-t", "6000", "-i", path>>

\* main.rs:162-167 and the match on the area at :179
ShotPrepare ==
    /\ pc = "shot_prepare"
    /\ \E picture_dir \in BOOLEAN, created \in BOOLEAN :
          /\ dir' = (dir \/ (picture_dir /\ created))
          /\ pc' = Question(picture_dir /\ created,
                            CASE cli.area = "Fullscreen" -> "shot_grim"
                              [] cli.area = "Window"     -> "shot_sway"
                              [] cli.area = "Region"     -> "shot_slurp")
    /\ UNCHANGED <<cli, trace, rect, region, bytes, file, input, str, pvars>>

\* main.rs:182-187: the tree, its focused container, the rectangle formatted
ShotSwayTree ==
    /\ pc = "shot_sway"
    /\ \/ /\ pc' = "err"          \* no connection, no tree, no focused window
          /\ UNCHANGED <<rect, region>>
       \/ \E r \in Rects :
             /\ rect' = Some(r)
             /\ region' = Some(FormatRect(r))
             /\ pc' = "shot_grim"
    /\ UNCHANGED <<cli, trace, dir, bytes, file, input, str, pvars>>

\* main.rs:191-194
ShotSlurp ==
    /\ pc = "shot_slurp"
    /\ \E r \in RunCommandWithStdio(TRUE, None, SlurpOutputs) :
          /\ trace' = Append(trace,
                Invocation("slurp", <<"-c", cli.slurp_fg, "-b", cli.slurp_bg>>,
                           TRUE, None, r))
          /\ IF Success(r) /\ Utf8Valid(r.stdout)
             THEN /\ region' = Some(Trim(Utf8Decode(r.stdout)))
                  /\ pc' = "shot_grim"
             ELSE /\ region' = region
                  /\ pc' = "err"
    /\ UNCHANGED <<cli, dir, rect, bytes, file, input, str, pvars>>

\* main.rs:168-177, called at :180, :188 or :194, and the `?` at :196
ShotGrim ==
    /\ pc = "shot_grim"
    /\ \E r \in RunCommandWithStdio(TRUE, None, GrimOutputs) :
          /\ trace' = Append(trace, Invocation("grim", GrimArgs(region), TRUE, None, r))
          /\ bytes' = IF Success(r) THEN Some(r.stdout) ELSE bytes
          /\ pc' = Question(Success(r), "shot_write")
    /\ UNCHANGED <<cli, dir, rect, region, file, input, str, pvars>>

\* a write that reports success and writes nothing
FsWrite_Nothing(old, data, ok) == {old}

\* What fs::write(&path, &bytes) leaves at path: all of data when it
\* succeeds; when it fails, nothing new (the file could not be opened) or a
\* file holding a part of data (a write failed).
FsWrite(old, data, ok) ==
    IF ok THEN {[exists |-> TRUE, data |-> data]}
    ELSE {old} \cup {[exists |-> TRUE, data |-> SubSeq(data, 1, n)] : n \in 0..(Len(data) - 1)}

\* main.rs:198-199
ShotWrite ==
    /\ pc = "shot_write"
    /\ \E created \in BOOLEAN, written \in BOOLEAN :
          /\ file' \in IF created THEN FsWrite(file, bytes.data, written) ELSE {file}
          /\ pc' = Question(created /\ written, "shot_wl_copy")
    /\ UNCHANGED <<cli, trace, dir, rect, region, bytes, input, str, pvars>>

\* notify-send before the clipboard is set: wl-copy left out of the sequence
ShotWlCopy_Skipped ==
    /\ pc = "shot_wl_copy"
    /\ pc' = "shot_notify"
    /\ UNCHANGED <<cli, trace, dir, rect, region, bytes, file, input, str, pvars>>

\* main.rs:202
ShotWlCopy ==
    /\ pc = "shot_wl_copy"
    /\ \E r \in RunCommandWithStdio(TRUE, Some(bytes.data), {<<>>}) :
          /\ trace' = Append(trace,
                Invocation("wl-copy", <<>>, TRUE, Some(bytes.data), r))
          /\ pc' = Question(Success(r), "shot_notify")
    /\ UNCHANGED <<cli, dir, rect, region, bytes, file, input, str, pvars>>

\* main.rs:204-218
ShotNotify == pc = "shot_notify" /\ RunStep("notify-send", NotifyArgs(Path), "ok")

(***************************************************************************)
(* scrollback (main.rs:221-236)                                            *)
(***************************************************************************)
\* main.rs:222-223: stdin read to its end; fails when it is not UTF-8
SbRead ==
    /\ pc = "sb_read"
    /\ \/ /\ pc' = "err"
          /\ input' = input
       \/ \E text \in Texts :
             /\ input' = Some(text)
             /\ pc' = "sb_editor"
    /\ UNCHANGED <<cli, trace, dir, rect, region, bytes, file, str, pvars>>

\* main.rs:225-235
SbEditor ==
    /\ pc = "sb_editor"
    /\ str' = Some(Sanitize(input.data))
    /\ \E r \in RunCommandWithStdio(TRUE, Some(Utf8Encode(str'.data)), {<<>>}) :
          /\ trace' = Append(trace,
                Invocation(cli.editor_name, <<>>, TRUE, Some(Utf8Encode(str'.data)), r))
          /\ pc' = Question(Success(r), "ok")
    /\ UNCHANGED <<cli, dir, rect, region, bytes, file, input, pvars>>

(***************************************************************************)
(* The subcommands: the specification Spec.                                *)
(***************************************************************************)
MInit ==
    /\ pc = "main"
    /\ cli = [script |-> "none"]
    /\ trace = <<>>
    /\ dir = FALSE
    /\ rect = None
    /\ region = None
    /\ bytes = None
    /\ file = NoFile
    /\ input = None
    /\ str = None

PInit ==
    /\ ppc = "start"
    /\ call = [pipe_stdout |-> FALSE, stdin |-> None, output |-> 0, drains |-> TRUE]
    /\ toWrite = 0
    /\ stdinOpen = FALSE
    /\ inPipe = 0
    /\ outPipe = 0
    /\ collected = 0
    /\ cpc = "none"
    /\ childOut = 0
    /\ childEof = FALSE
    /\ status = 0
    /\ ret = "none"

Init == MInit /\ PInit

Next ==
    \/ Main
    \/ CfgSetCurrentDir \/ CfgEditor \/ CfgGitAdd \/ CfgNh \/ CfgGitCommit \/ CfgGitPush
    \/ UpdSetCurrentDir \/ UpdGitAdd \/ UpdNh
    \/ ShotPrepare \/ ShotSwayTree \/ ShotSlurp \/ ShotGrim \/ ShotWrite
    \/ ShotWlCopy \/ ShotNotify
    \/ SbRead \/ SbEditor

Spec == Init /\ [][Next]_vars

(***************************************************************************)
(* run_command_with_stdio (main.rs:98-133) at the level of the pipes: the  *)
(* specification PipeSpec.  The parent and the child are two processes;    *)
(* a pipe holds at most PipeCap bytes, a write to a full pipe and a read   *)
(* from an empty pipe that still has a writer block.  Data is counted, not *)
(* kept.                                                                   *)
(*                                                                         *)
(* The child is any program that reads its stdin and writes call.output    *)
(* bytes to its stdout, in the order it likes, one blocking system call at *)
(* a time.  A child with call.drains exits only after it has read its      *)
(* stdin to the end and written all its output; another may exit at any    *)
(* time.                                                                   *)
(***************************************************************************)
Min(a, b) == IF a < b THEN a ELSE b

Calls ==
    [pipe_stdout : BOOLEAN,
     stdin : {None} \cup {Some(n) : n \in 0..MaxData},
     output : 0..MaxOut,
     drains : BOOLEAN]

\* main.rs:104-113: Command::new(..).stdout(..).stdin(Stdio::piped()).spawn()?
PSpawn ==
    /\ ppc = "start"
    /\ \E c \in Calls, spawned \in BOOLEAN :
          /\ call' = c
          /\ IF spawned
             THEN /\ ppc' = IF c.stdin.some THEN "write_all" ELSE "wait_with_output"
                  /\ toWrite' = c.stdin.data
                  /\ stdinOpen' = TRUE
                  /\ cpc' = "run"
                  /\ childOut' = c.output
                  /\ ret' = ret
             ELSE /\ ppc' = "returned"
                  /\ ret' = "Err"
                  /\ UNCHANGED <<toWrite, stdinOpen, cpc, childOut>>
    /\ UNCHANGED <<inPipe, outPipe, collected, childEof, status, mvars>>

\* main.rs:115: write_all writes while data is left; each write(2) puts what
\* fits into the pipe, and blocks while the pipe is full
PWrite ==
    /\ ppc = "write_all"
    /\ toWrite > 0
    /\ cpc # "exited"
    /\ inPipe < PipeCap
    /\ \E n \in 1..Min(toWrite, PipeCap - inPipe) :
          /\ toWrite' = toWrite - n
          /\ inPipe' = inPipe + n
    /\ UNCHANGED <<ppc, call, stdinOpen, outPipe, collected, cpc, childOut,
                   childEof, status, ret, mvars>>

\* main.rs:115: a write to a pipe whose reader is gone fails, and `?` returns
PWriteError ==
    /\ ppc = "write_all"
    /\ toWrite > 0
    /\ cpc = "exited"
    /\ ppc' = "returned"
    /\ ret' = "Err"
    /\ stdinOpen' = FALSE
    /\ UNCHANGED <<call, toWrite, inPipe, outPipe, collected, cpc, childOut,
                   childEof, status, mvars>>

\* main.rs:115: all data written; the ChildStdin taken from cmd is dropped at
\* the end of the statement, which closes the parent's end of the pipe
PWritten ==
    /\ ppc = "write_all"
    /\ toWrite = 0
    /\ stdinOpen' = FALSE
    /\ ppc' = "wait_with_output"
    /\ UNCHANGED <<call, toWrite, inPipe, outPipe, collected, cpc, childOut,
                   childEof, status, ret, mvars>>

\* main.rs:118: wait_with_output first drops the child's stdin, if still held
PWaitWithOutput ==
    /\ ppc = "wait_with_output"
    /\ stdinOpen' = FALSE
    /\ ppc' = IF call.pipe_stdout THEN "read_to_end" ELSE "wait"
    /\ UNCHANGED <<call, toWrite, inPipe, outPipe, collected, cpc, childOut,
                   childEof, status, ret, mvars>>

\* main.rs:118: then reads the child's stdout to its end
PRead ==
    /\ ppc = "read_to_end"
    /\ outPipe > 0
    /\ collected' = collected + outPipe
    /\ outPipe' = 0
    /\ UNCHANGED <<ppc, call, toWrite, stdinOpen, inPipe, cpc, childOut,
                   childEof, status, ret, mvars>>

PReadEnd ==
    /\ ppc = "read_to_end"
    /\ outPipe = 0
    /\ cpc = "exited"
    /\ ppc' = "wait"
    /\ UNCHANGED <<call, toWrite, stdinOpen, inPipe, outPipe, collected, cpc,
                   childOut, childEof, status, ret, mvars>>

\* main.rs:118-132: then waits for the child, and returns by its status
PWait ==
    /\ ppc = "wait"
    /\ cpc = "exited"
    /\ ppc' = "returned"
    /\ \E waited \in BOOLEAN : ret' = IF waited /\ status = 0 THEN "Ok" ELSE "Err"
    /\ UNCHANGED <<call, toWrite, stdinOpen, inPipe, outPipe, collected, cpc,
                   childOut, childEof, status, mvars>>

\* the child calls read(2) on its stdin
CStartRead ==
    /\ cpc = "run"
    /\ ~childEof
    /\ cpc' = "read"
    /\ UNCHANGED <<ppc, call, toWrite, stdinOpen, inPipe, outPipe, collected,
                   childOut, childEof, status, ret, mvars>>

\* read(2) returns some of what the pipe holds
CRead ==
    /\ cpc = "read"
    /\ inPipe > 0
    /\ \E n \in 1..inPipe : inPipe' = inPipe - n
    /\ cpc' = "run"
    /\ UNCHANGED <<ppc, call, toWrite, stdinOpen, outPipe, collected, childOut,
                   childEof, status, ret, mvars>>

\* read(2) returns 0: the pipe is empty and the parent has closed its end
CReadEof ==
    /\ cpc = "read"
    /\ inPipe = 0
    /\ ~stdinOpen
    /\ childEof' = TRUE
    /\ cpc' = "run"
    /\ UNCHANGED <<ppc, call, toWrite, stdinOpen, inPipe, outPipe, collected,
                   childOut, status, ret, mvars>>

\* the child calls write(2) on its stdout
CStartWrite ==
    /\ cpc = "run"
    /\ childOut > 0
    /\ cpc' = "write"
    /\ UNCHANGED <<ppc, call, toWrite, stdinOpen, inPipe, outPipe, collected,
                   childOut, childEof, status, ret, mvars>>

\* write(2) returns: to a pipe when it has room (Stdio::piped()), to the
\* parent's stdout otherwise (Stdio::inherit())
CWrite ==
    /\ cpc = "write"
    /\ IF call.pipe_stdout
       THEN /\ outPipe < PipeCap
            /\ outPipe' = outPipe + 1
       ELSE outPipe' = outPipe
    /\ childOut' = childOut - 1
    /\ cpc' = "run"
    /\ UNCHANGED <<ppc, call, toWrite, stdinOpen, inPipe, collected, childEof,
                   status, ret, mvars>>

\* the child exits, which closes its ends of the pipes
CExit ==
    /\ cpc = "run"
    /\ call.drains => (childEof /\ childOut = 0)
    /\ cpc' = "exited"
    /\ \E code \in {0, 1} : status' = code
    /\ UNCHANGED <<ppc, call, toWrite, stdinOpen, inPipe, outPipe, collected,
                   childOut, childEof, ret, mvars>>

PipeNext ==
    \/ PSpawn \/ PWrite \/ PWriteError \/ PWritten \/ PWaitWithOutput
    \/ PRead \/ PReadEnd \/ PWait
    \/ CStartRead \/ CRead \/ CReadEof \/ CStartWrite \/ CWrite \/ CExit

PipeSpec == Init /\ [][PipeNext]_vars

(***************************************************************************)
(* Properties of Spec.                                                     *)
(***************************************************************************)
Invoked == 1..Len(trace)

Ran(i, command, args) == trace[i].command = command /\ trace[i].args = args

Succeeded(i) == trace[i].outcome = "success"

\* C1: in every subcommand, a command that cannot be spawned or does not
\* exit with status 0 (or whose stdin or wait fails) is the last command
\* invoked, and the subcommand has returned an error.
C1_FailureEndsSubcommand ==
    \A i \in Invoked : ~Succeeded(i) => (i = Len(trace) /\ pc = "err")

\* nixos configure stopped by nh exiting with a non-zero status
C1_Witness ==
    /\ cli.script = "nixos_configure"
    /\ pc = "err"
    /\ Len(trace) = 3
    /\ trace[3].command = "nh"
    /\ trace[3].outcome = "exit_nonzero"

\* C2: nixos configure invokes editor, git add ., nh os switch, git commit -a,
\* git push in this order, each one only after the one before it exited 0.
C2_ConfigureOrder ==
    cli.script = "nixos_configure" =>
        /\ Len(trace) <= 5
        /\ \A i \in Invoked :
              /\ i > 1 => Succeeded(i - 1)
              /\ i = 1 => Ran(i, cli.editor_name, <<>>)
              /\ i = 2 => Ran(i, "git", <<"add", ".">>)
              /\ i = 3 => /\ trace[i].command = "nh"
                          /\ SubSeq(trace[i].args, 1, 2) = <<"os", "switch">>
              /\ i = 4 => Ran(i, "git", <<"commit", "-a">>)
              /\ i = 5 => Ran(i, "git", <<"push">>)

\* nixos configure has run all five commands and returned Ok
C2_Witness ==
    /\ cli.script = "nixos_configure"
    /\ pc = "ok"
    /\ Len(trace) = 5
    /\ Ran(5, "git", <<"push">>)

\* C7: nixos update invokes git add . and then, only if that exited 0,
\* nh os switch -H <device> . --update; it never invokes git commit or git push.
C7_UpdateCommands ==
    cli.script = "nixos_update" =>
        /\ Len(trace) <= 2
        /\ \A i \in Invoked :
              /\ i > 1 => Succeeded(i - 1)
              /\ i = 1 => Ran(i, "git", <<"add", ".">>)
              /\ i = 2 => Ran(i, "nh", <<"os", "switch", "-H", cli.device, ".", "--update">>)
              /\ ~ (trace[i].command = "git" /\ trace[i].args[1] \in {"commit", "push"})

\* nixos update has run both commands and returned Ok
C7_Witness ==
    /\ cli.script = "nixos_update"
    /\ pc = "ok"
    /\ Len(trace) = 2
    /\ trace[2].command = "nh"

\* C9: nixos configure invokes nh with the argument list of nixos update for
\* the same device when update is set, and with that list less its last
\* argument, the update flag, when it is not.
C9_ConfigureNhArgsAsUpdate ==
    cli.script = "nixos_configure" =>
        \A i \in Invoked :
            trace[i].command = "nh" =>
                trace[i].args = IF cli.update
                                THEN UpdateNhArgs(cli.device)
                                ELSE SubSeq(UpdateNhArgs(cli.device), 1, 5)

GrimSucceededBefore(i) ==
    {g \in 1..(i - 1) : trace[g].command = "grim" /\ Succeeded(g)}

\* C4: screenshot invokes grim with ["-"] for Fullscreen, with
\* ["-g", "<x>,<y> <width>x<height>", "-"] of the focused container's
\* rectangle for Window, and with ["-g", slurp's output trimmed, "-"] for
\* Region; slurp is invoked only for Region, and before grim.  The last four
\* conjuncts spell the geometry out for one rectangle and three outputs of
\* slurp.
C4_GrimArguments ==
    cli.script = "screenshot" =>
        \A i \in Invoked :
            /\ trace[i].command = "slurp" =>
                  /\ cli.area = "Region"
                  /\ \A g \in Invoked : trace[g].command = "grim" => i < g
            /\ trace[i].command = "grim" =>
                  /\ cli.area = "Fullscreen" => trace[i].args = <<Dash>>
                  /\ cli.area = "Window" =>
                        /\ rect.some
                        /\ trace[i].args = <<DashG, FormatRect(rect.data), Dash>>
                  /\ cli.area = "Region" =>
                        /\ i = 2
                        /\ trace[1].command = "slurp"
                        /\ Succeeded(1)
                        /\ trace[i].args = <<DashG, Trim(Utf8Decode(trace[1].stdout)), Dash>>
                  /\ (cli.area = "Window"
                        /\ rect.data = [x |-> -10, y |-> 1080, width |-> 640, height |-> 480])
                     => trace[i].args[2] = <<45, 49, 48, 44, 49, 48, 56, 48, 32,
                                             54, 52, 48, 120, 52, 56, 48>>
                  /\ (cli.area = "Region"
                        /\ trace[1].stdout = <<49, 44, 50, 32, 51, 120, 52, 10>>)
                     => trace[i].args[2] = <<49, 44, 50, 32, 51, 120, 52>>
                  /\ (cli.area = "Region"
                        /\ trace[1].stdout = <<49, 44, 50, 32, 51, 120, 52, 194, 160>>)
                     => trace[i].args[2] = <<49, 44, 50, 32, 51, 120, 52>>
                  /\ (cli.area = "Region"
                        /\ trace[1].stdout = <<32, 55, 44, 48, 32, 54, 52, 48, 120, 52, 56, 48>>)
                     => trace[i].args[2] = <<55, 44, 48, 32, 54, 52, 48, 120, 52, 56, 48>>

\* grim invoked for a region that slurp printed with a newline after it
C4_Witness ==
    /\ cli.script = "screenshot"
    /\ cli.area = "Region"
    /\ Len(trace) = 2
    /\ trace[1].stdout = <<49, 44, 50, 32, 51, 120, 52, 10>>
    /\ trace[2].command = "grim"
    /\ trace[2].args = <<DashG, <<49, 44, 50, 32, 51, 120, 52>>, Dash>>

\* C5: notify-send is invoked only after the screenshot file has been
\* written and wl-copy has exited 0, wl-copy only after the file has been
\* written, and the file is written only after grim exited 0: the effects
\* come in the order grim, file write, wl-copy, notify-send.
C5_ScreenshotOrder ==
    cli.script = "screenshot" =>
        /\ file.exists => GrimSucceededBefore(Len(trace) + 1) # {}
        /\ \A i \in Invoked :
              /\ trace[i].command = "wl-copy" =>
                    /\ GrimSucceededBefore(i) # {}
                    /\ file.exists
                    /\ file.data = bytes.data
              /\ trace[i].command = "notify-send" =>
                    /\ i > 1
                    /\ trace[i - 1].command = "wl-copy"
                    /\ Succeeded(i - 1)
                    /\ file.exists
                    /\ file.data = bytes.data

\* screenshot has returned Ok after notify-send
C5_Witness ==
    /\ cli.script = "screenshot"
    /\ pc = "ok"
    /\ trace[Len(trace)].command = "notify-send"
    /\ trace[Len(trace) - 1].command = "wl-copy"
    /\ file.exists

Written(i) == Utf8Decode(trace[i].stdin.data)

\* the characters of s at the positions of the set K, in their order
RECURSIVE Pick(_, _, _)
Pick(s, K, i) ==
    IF i > Len(s) THEN <<>>
    ELSE (IF i \in K THEN <<s[i]>> ELSE <<>>) \o Pick(s, K, i + 1)

\* P is the set of the positions where the removed matches of s start:
\* every one is a match, no two overlap, and no match starts at a position
\* outside them all (a leftmost match is never passed over).
Covered(s, P) == {q \in 1..Len(s) : \E p \in P : p <= q /\ q < p + MatchLen(s, p)}

RemovedAt(s, P) ==
    /\ \A p \in P : MatchLen(s, p) > 0
    /\ \A p, q \in P : p < q => p + MatchLen(s, p) <= q
    /\ \A q \in (1..Len(s)) \ Covered(s, P) : MatchLen(s, q) = 0

\* C3: the text scrollback writes to the editor's stdin holds no match of
\* any of the four patterns, so that stripping it again leaves it unchanged.
C3_OutputSanitized ==
    cli.script = "scrollback" =>
        \A i \in Invoked :
            /\ \A p \in 1..Len(Written(i)) : MatchLen(Written(i), p) = 0
            /\ ReplaceAll(Written(i)) = Written(i)

\* C8: the text scrollback writes to the editor's stdin holds no carriage
\* return, and it is the trimmed input less the removed matches: every
\* character outside them, in the original order.
C8_NoCarriageReturnRestKept ==
    cli.script = "scrollback" =>
        \A i \in Invoked :
            LET s == Trim(input.data)
            IN  /\ \A k \in 1..Len(Written(i)) : Written(i)[k] # CR
                /\ \E P \in SUBSET (1..Len(s)) :
                      /\ RemovedAt(s, P)
                      /\ Written(i) = Pick(s, (1..Len(s)) \ Covered(s, P), 1)

\* "m", a carriage return, "0" and a space read; "m0" written
C8_Witness ==
    /\ cli.script = "scrollback"
    /\ Len(trace) = 1
    /\ input.data = <<109, CR, 48, SP>>
    /\ trace[1].stdin.data = <<109, 48>>

(***************************************************************************)
(* Properties of PipeSpec.                                                 *)
(***************************************************************************)
\* the parent is in write(2) on the child's stdin, whose pipe is full
ParentBlocked ==
    /\ ppc = "write_all"
    /\ toWrite > 0
    /\ cpc # "exited"
    /\ inPipe = PipeCap

\* the child is in write(2) on its stdout, whose pipe is full
ChildBlocked ==
    /\ cpc = "write"
    /\ call.pipe_stdout
    /\ outPipe = PipeCap

\* C10: with stdin data and a piped stdout, and a child that reads its
\* stdin to the end, writes a finite output and exits, parent and child are
\* never blocked on each other.
C10_NeverBlockedOnEachOther ==
    (call.stdin.some /\ call.pipe_stdout /\ call.drains) =>
        ~ (ParentBlocked /\ ChildBlocked)

=============================================================================
